---- MODULE Spec2Model ----
(***************************************************************************)
(* nscrestc: one run of main() in nscrestc.go, from flag parsing to        *)
(* os.Exit.  Text is modelled as sequences of one-character strings;       *)
(* fixed program texts ("UNKNOWN: ", ...) are kept as single pieces.       *)
(* float64 values are modelled in tenths (955 stands for 95.5).            *)
(* An optional (pointer) field is <<>> when nil and <<v>> when set.        *)
(***************************************************************************)
EXTENDS Integers, Sequences, FiniteSets, TLC

VARIABLES
    flagErr,         \* flag.Parse rejects the command line
    seen,            \* flags given on the command line (flag.Visit)
    flagURL,         \* -u
    flagVerbose,     \* -v
    args,            \* flag.Args(), each a sequence of characters
    reqErr,          \* environment: http.NewRequest returns an error
    doErr,           \* environment: hClient.Do returns a transport error
    bodyEnd,         \* environment: how the response body stream ends
    doc,             \* environment: the JSON document the body carries
    pc,              \* position in main()
    urlStruct,       \* the parsed URL being built (Path, RawQuery)
    netBody,         \* the network body stream of the response
    resBody,         \* what res.Body refers to: "none", "net" or "copy"
    deferred,        \* deferred calls registered by main()
    queryResult,     \* the decoded Query
    decodeErr,       \* error returned (and dropped) by Decode
    result,          \* queryResult.Payload[0].Result
    nagiosMessage,
    nagiosPerfdata,
    li,              \* index of the line being iterated
    pj,              \* index of the perf entry being iterated
    stdout,          \* lines written to standard output
    stderr,          \* lines written to standard error
    exitCode,        \* -1 while running
    prev             \* outcomes of earlier runs on the same input

vars == <<flagErr, seen, flagURL, flagVerbose, args, reqErr, doErr, bodyEnd, doc, pc,
          urlStruct, netBody, resBody, deferred, queryResult, decodeErr,
          result, nagiosMessage, nagiosPerfdata, li, pj, stdout, stderr,
          exitCode, prev>>

inputVars == <<flagErr, seen, flagURL, args, reqErr, doErr, bodyEnd, doc>>

----------------------------------------------------------------------------
(* Bounds of the model *)

MaxArgs == 3
MaxLines == 2
MaxPerf == 2
MaxPayload == 2

----------------------------------------------------------------------------
(* Text helpers *)

Last(s) == s[Len(s)]

RECURSIVE Concat(_)
Concat(ss) == IF ss = <<>> THEN <<>> ELSE Head(ss) \o Concat(Tail(ss))

IsSpace(c) == c \in {" ", "\t", "\n"}

RECURSIVE TrimLeft(_)
TrimLeft(s) == IF s # <<>> /\ IsSpace(Head(s)) THEN TrimLeft(Tail(s)) ELSE s

RECURSIVE TrimRight(_)
TrimRight(s) == IF s # <<>> /\ IsSpace(Last(s))
                THEN TrimRight(SubSeq(s, 1, Len(s) - 1)) ELSE s

TrimSpace(s) == TrimRight(TrimLeft(s))

\* a mutant of SplitFirstEq: the token is cut at its last "="
SplitLastEq(a) ==
    IF \E k \in 1..Len(a) : a[k] = "="
    THEN LET k == CHOOSE x \in 1..Len(a) :
                     a[x] = "=" /\ \A y \in (x + 1)..Len(a) : a[y] # "="
         IN <<SubSeq(a, 1, k - 1), SubSeq(a, k + 1, Len(a))>>
    ELSE <<a>>

\* strings.SplitN(a, "=", 2)
SplitFirstEq(a) ==
    IF \E k \in 1..Len(a) : a[k] = "="
    THEN LET k == CHOOSE x \in 1..Len(a) :
                     a[x] = "=" /\ \A y \in 1..(x - 1) : a[y] # "="
         IN <<SubSeq(a, 1, k - 1), SubSeq(a, k + 1, Len(a))>>
    ELSE <<a>>

DigitChar(d) == <<"0", "1", "2", "3", "4", "5", "6", "7", "8", "9">>[d + 1]

RECURSIVE Digits(_)
Digits(n) == IF n < 10 THEN <<DigitChar(n)>>
             ELSE Digits(n \div 10) \o <<DigitChar(n % 10)>>

\* strconv.FormatFloat(v, 'f', -1, 64) for a value given in tenths
FormatFloat(t) ==
    LET a == IF t < 0 THEN -t ELSE t
    IN (IF t < 0 THEN <<"-">> ELSE <<>>)
       \o Digits(a \div 10)
       \o (IF a % 10 = 0 THEN <<>> ELSE <<".", DigitChar(a % 10)>>)

----------------------------------------------------------------------------
(* net/url *)

\* url.Parse of the -u values of the model
UrlParse(u) ==
    CASE u = "https://h:8443"     -> [err |-> FALSE, Path |-> <<>>, RawQuery |-> <<>>]
      [] u = "https://h:8443/api" -> [err |-> FALSE, Path |-> <<"/", "a", "p", "i">>,
                                      RawQuery |-> <<>>]
      [] OTHER                    -> [err |-> TRUE, Path |-> <<>>, RawQuery |-> <<>>]

ByteOrder == <<"&", "+", "1", "=", "a", "b", "c", "f", "o", "r">>

CharOrd(c) == CHOOSE k \in 1..Len(ByteOrder) : ByteOrder[k] = c

RECURSIVE LexLess(_, _)
LexLess(a, b) ==
    IF b = <<>> THEN FALSE
    ELSE IF a = <<>> THEN TRUE
    ELSE IF Head(a) = Head(b) THEN LexLess(Tail(a), Tail(b))
    ELSE CharOrd(Head(a)) < CharOrd(Head(b))

\* url.QueryEscape
EscapeChar(c) ==
    CASE c = "=" -> <<"%", "3", "D">>
      [] c = "&" -> <<"%", "2", "6">>
      [] c = "+" -> <<"%", "2", "B">>
      [] c = " " -> <<"+">>
      [] OTHER   -> <<c>>

RECURSIVE QueryEscape(_)
QueryEscape(s) == IF s = <<>> THEN <<>>
                  ELSE EscapeChar(Head(s)) \o QueryEscape(Tail(s))

\* url.Values.Add
ValuesAdd(v, key, value) ==
    IF key \in DOMAIN v
    THEN [v EXCEPT ![key] = Append(@, value)]
    ELSE (key :> <<value>>) @@ v

RECURSIVE SortKeys(_)
SortKeys(ks) ==
    IF ks = {} THEN <<>>
    ELSE LET m == CHOOSE x \in ks : \A y \in ks \ {x} : LexLess(x, y)
         IN <<m>> \o SortKeys(ks \ {m})

RECURSIVE EncodeKey(_, _)
EncodeKey(key, vals) ==
    IF vals = <<>> THEN <<>>
    ELSE <<QueryEscape(key) \o <<"=">> \o QueryEscape(Head(vals))>>
         \o EncodeKey(key, Tail(vals))

RECURSIVE JoinAmp(_)
JoinAmp(parts) ==
    IF parts = <<>> THEN <<>>
    ELSE IF Len(parts) = 1 THEN Head(parts)
    ELSE Head(parts) \o <<"&">> \o JoinAmp(Tail(parts))

\* url.Values.Encode: "key=value" pairs, sorted by key
ValuesEncode(v) ==
    LET keys == SortKeys(DOMAIN v)
    IN JoinAmp(Concat([k \in 1..Len(keys) |-> EncodeKey(keys[k], v[keys[k]])]))

\* the loop over flag.Args()[1:] building url.Values
RECURSIVE AddParameters(_, _)
AddParameters(v, rest) ==
    IF rest = <<>> THEN v
    ELSE LET p == SplitFirstEq(Head(rest))
         IN AddParameters(
                IF Len(p) = 1 THEN ValuesAdd(v, p[1], <<>>)
                ELSE ValuesAdd(v, p[1], p[2]),
                Tail(rest))

EmptyValues == [k \in {} |-> <<>>]

\* urlStruct after lines 107-131, from the parsed base URL and flag.Args()
BuildURL(base, as) ==
    IF Len(as) = 0
    THEN [Path |-> base.Path \o <<"/">>, RawQuery |-> base.RawQuery]
    ELSE IF Len(as) = 1
    THEN [Path |-> base.Path \o <<"/", "query", "/">> \o as[1],
          RawQuery |-> base.RawQuery]
    ELSE [Path |-> base.Path \o <<"/", "query", "/">> \o as[1],
          RawQuery |-> ValuesEncode(AddParameters(EmptyValues, Tail(as)))]

----------------------------------------------------------------------------
(* encoding/json into the Query struct *)

\* a pointer field of int_value, set only when its JSON key is present
OptField(iv, key) == IF key \in DOMAIN iv THEN <<iv[key]>> ELSE <<>>

\* the struct tags of Query.Payload[].Lines[].Perf[].IntValue
DecodeIntValue(iv) ==
    [Value    |-> OptField(iv, "value"),
     Unit     |-> OptField(iv, "unit"),
     Warning  |-> OptField(iv, "warning"),
     Critical |-> OptField(iv, "critical"),
     Minimum  |-> OptField(iv, "mininum"),
     Maximum  |-> OptField(iv, "maximum")]

DecodePerf(p) == [Alias |-> p.alias, IntValue |-> DecodeIntValue(p.int_value)]

DecodeLine(l) ==
    [Message |-> l.message,
     Perf    |-> [k \in 1..Len(l.perf) |-> DecodePerf(l.perf[k])]]

\* an array element that is no object leaves a zero-valued entry behind;
\* a field of the wrong JSON type is skipped and decoding goes on
DecodeEntry(e) ==
    [Result |-> IF e.type = "object" /\ e.result.type = "string"
                THEN e.result.val ELSE "",
     Lines  |-> IF e.type = "object" /\ e.lines.type = "array"
                THEN [k \in 1..Len(e.lines.val) |-> DecodeLine(e.lines.val[k])]
                ELSE <<>>]

EntryTypeError(e) ==
    \/ e.type # "object"
    \/ e.result.type \notin {"string", "missing"}
    \/ e.lines.type \notin {"array", "missing"}

ZeroQuery == [Payload |-> <<>>]

\* a mutant of Decode: a payload that is no array leaves one zero entry
DecodeOneEntry(d) ==
    IF d.syntax # "valid" THEN [q |-> ZeroQuery, err |-> TRUE]
    ELSE IF d.top # "object" \/ d.payload.type # "array"
    THEN [q |-> [Payload |-> <<[Result |-> "", Lines |-> <<>>]>>], err |-> TRUE]
    ELSE [q   |-> [Payload |-> [k \in 1..Len(d.payload.val) |->
                                    DecodeEntry(d.payload.val[k])]],
          err |-> FALSE]

\* json.NewDecoder(body).Decode(queryResult) on a body holding document d:
\* a syntax error leaves the struct untouched; a type mismatch is recorded
\* as the error while the rest of the document is still stored
Decode(d) ==
    IF d.syntax # "valid" THEN [q |-> ZeroQuery, err |-> TRUE]
    ELSE IF d.top # "object" THEN [q |-> ZeroQuery, err |-> TRUE]
    ELSE IF d.payload.type # "array"
    THEN [q |-> ZeroQuery, err |-> d.payload.type # "missing"]
    ELSE [q   |-> [Payload |-> [k \in 1..Len(d.payload.val) |->
                                    DecodeEntry(d.payload.val[k])]],
          err |-> \E k \in 1..Len(d.payload.val) :
                      EntryTypeError(d.payload.val[k])]

\* what Decode stores when it reads from a stream that yields no complete
\* JSON value (read error or EOF before the value ends)
DecodeNothing == [q |-> ZeroQuery, err |-> TRUE]

----------------------------------------------------------------------------
(* Result formatting *)

\* a mutant of ReturncodeMap: an unlisted result counts as UNKNOWN
ReturncodeMapStrict(r) ==
    CASE r = "OK"       -> 0
      [] r = "WARNING"  -> 1
      [] r = "CRITICAL" -> 2
      [] OTHER          -> 3

\* ReturncodeMap[result]: a missing key yields the zero value
ReturncodeMap(r) ==
    CASE r = "OK"       -> 0
      [] r = "WARNING"  -> 1
      [] r = "CRITICAL" -> 2
      [] r = "UNKNOWN"  -> 3
      [] OTHER          -> 0

OptFloat(f) == IF f = <<>> THEN <<>> ELSE <<";">> \o FormatFloat(f[1])

\* a mutant of PerfTag: an absent threshold leaves an empty ";" field
PerfTagPlaceholders(p) ==
    LET field(f) == <<";">> \o (IF f = <<>> THEN <<>> ELSE FormatFloat(f[1]))
    IN IF p.IntValue.Value = <<>> THEN <<>>
       ELSE <<" ", "'">> \o p.Alias \o <<"'", "=">>
            \o FormatFloat(p.IntValue.Value[1])
            \o (IF p.IntValue.Unit = <<>> THEN <<>> ELSE p.IntValue.Unit[1])
            \o field(p.IntValue.Warning)
            \o field(p.IntValue.Critical)
            \o field(p.IntValue.Minimum)
            \o field(p.IntValue.Maximum)

\* what the body of the perf loop writes to nagiosPerfdata for one entry
PerfTag(p) ==
    IF p.IntValue.Value = <<>> THEN <<>>
    ELSE <<" ", "'">> \o p.Alias \o <<"'", "=">>
         \o FormatFloat(p.IntValue.Value[1])
         \o (IF p.IntValue.Unit = <<>> THEN <<>> ELSE p.IntValue.Unit[1])
         \o OptFloat(p.IntValue.Warning)
         \o OptFloat(p.IntValue.Critical)
         \o OptFloat(p.IntValue.Minimum)
         \o OptFloat(p.IntValue.Maximum)

\* a mutant of LineMessage: the messages of the lines are concatenated
LineMessageJoined(old, l) == old \o TrimSpace(l.Message)

\* nagiosMessage after one iteration of the line loop
LineMessage(old, l) == TrimSpace(l.Message)

\* the line printed at lines 222-226
ResultLine(msg, perfdata) ==
    IF Len(perfdata) = 0 THEN msg
    ELSE msg \o <<"|">> \o TrimSpace(perfdata)

\* a mutant of ProbeLine: the URL is left out
ProbeLineNoURL(u) == <<"OK: NSClient API reachable on ">>

ProbeLine(u) == <<"OK: NSClient API reachable on ", u>>

UnknownLine(reason) == <<"UNKNOWN: ", reason>>

----------------------------------------------------------------------------
(* Inputs of the model: command lines and responses of the agent *)

SeqUpTo(S, n) == UNION {[1..k -> S] : k \in 0..n}

CheckName == <<"c", "h", "k">>

\* foo=bar, foo, a=b=c, b=1
Tokens == {<<"f", "o", "o", "=", "b", "a", "r">>, <<"f", "o", "o">>,
           <<"a", "=", "b", "=", "c">>, <<"b", "=", "1">>}

ArgLists == {<<>>} \cup {<<CheckName>> \o ps : ps \in SeqUpTo(Tokens, MaxArgs - 1)}

URLs == {"https://h:8443", "https://h:8443/api", ":8443"}

BodyEnds == {"eof", "errAfterValue", "errBeforeValue"}

JStr(v) == [type |-> "string", val |-> v]
JNoStr(t) == [type |-> t, val |-> ""]
JArr(v) == [type |-> "array", val |-> v]
JNoArr(t) == [type |-> t, val |-> <<>>]
JEntry(r, l) == [type |-> "object", result |-> r, lines |-> l]
JNumber == [type |-> "number", result |-> JNoStr("missing"),
            lines |-> JNoArr("missing")]
JDoc(p) == [syntax |-> "valid", top |-> "object", payload |-> p]
BadSyntaxDoc == [syntax |-> "invalid", top |-> "object", payload |-> JNoArr("missing")]
NonObjectDoc == [syntax |-> "valid", top |-> "other", payload |-> JNoArr("missing")]

JsonKeys == {"value", "unit", "warning", "critical", "minimum", "mininum", "maximum"}

KeyValue(k) ==
    CASE k = "value"    -> 955
      [] k = "unit"     -> <<"%">>
      [] k = "warning"  -> 800
      [] k = "critical" -> 900
      [] k = "minimum"  -> 5
      [] k = "mininum"  -> -15
      [] k = "maximum"  -> 1000

JMetric(alias, keys) == [alias |-> alias, int_value |-> [k \in keys |-> KeyValue(k)]]
JLine(m, ps) == [message |-> m, perf |-> ps]
OneLineDoc(r, l) == JDoc(JArr(<<JEntry(JStr(r), JArr(<<l>>))>>))

FloatValues == {0, 5, -15, 120, 955, 1000}

Messages == {<<>>, <<" ">>, <<"m">>, <<" ", "m", " ", "n", "\t">>, <<"\n", "m">>}

Results == {"OK", "WARNING", "CRITICAL", "UNKNOWN", "", "ok"}

\* one line, one metric: every combination of int_value keys
MetricDocs ==
    {OneLineDoc("WARNING", JLine(<<"m">>, <<JMetric(<<"a">>, ks)>>)) :
        ks \in SUBSET JsonKeys}
    \cup {OneLineDoc("OK", JLine(<<"m">>,
              <<[alias |-> <<"a">>, int_value |-> [k \in {"value"} |-> v]]>>)) :
        v \in FloatValues}

\* one line without metrics: the messages
MessageDocs == {OneLineDoc("OK", JLine(m, <<>>)) : m \in Messages}

\* line k carries message " mk"; its metric j has alias aj and, when it
\* has a value, the value k.j
PosLine(k, present) ==
    JLine(<<" ", "m", DigitChar(k)>>,
          [j \in 1..Len(present) |->
              [alias |-> <<"a", DigitChar(j)>>,
               int_value |-> IF present[j]
                             THEN [x \in {"value"} |-> 10 * k + j]
                             ELSE [x \in {"warning"} |-> 800]]])

LinesDocs ==
    {JDoc(JArr(<<JEntry(JStr("CRITICAL"),
                        JArr([k \in 1..Len(pl) |-> PosLine(k, pl[k])]))>>)) :
        pl \in SeqUpTo(SeqUpTo(BOOLEAN, MaxPerf), MaxLines)}

FirstElems ==
    {JEntry(JStr(r), JArr(<<>>)) : r \in Results}
    \cup {JEntry(JNoStr("number"), JArr(<<JLine(<<"m">>, <<>>)>>)),
          JEntry(JStr("WARNING"), JNoArr("number")),
          JEntry(JStr("CRITICAL"), JNoArr("missing")),
          JNumber}

RestElems == {JEntry(JStr("CRITICAL"), JArr(<<JLine(<<"n">>, <<>>)>>)), JNumber}

\* the shapes of the document and of its payload array
ShapeDocs ==
    {BadSyntaxDoc, NonObjectDoc, JDoc(JNoArr("missing")), JDoc(JNoArr("number")),
     JDoc(JArr(<<>>))}
    \cup {JDoc(JArr(<<f>> \o r)) :
            f \in FirstElems, r \in SeqUpTo(RestElems, MaxPayload - 1)}

BothFlags == {"u", "p"}

----------------------------------------------------------------------------
(* The run *)

FreshBody == [pos |-> "start", closed |-> FALSE]

RunInit ==
    /\ pc = "start"
    /\ urlStruct = [Path |-> <<>>, RawQuery |-> <<>>]
    /\ netBody = FreshBody
    /\ resBody = "none"
    /\ deferred = <<>>
    /\ queryResult = ZeroQuery
    /\ decodeErr = FALSE
    /\ result = ""
    /\ nagiosMessage = <<>>
    /\ nagiosPerfdata = <<>>
    /\ li = 0
    /\ pj = 0
    /\ stdout = <<>>
    /\ stderr = <<>>
    /\ exitCode = -1

\* failures of the command line and of the transport
InitFailures ==
    /\ flagErr \in BOOLEAN
    /\ seen \in SUBSET BothFlags
    /\ flagURL \in URLs
    /\ args \in {<<>>, <<CheckName>>}
    /\ reqErr \in BOOLEAN
    /\ doErr \in BOOLEAN
    /\ bodyEnd \in BodyEnds
    /\ doc \in {BadSyntaxDoc, JDoc(JArr(<<>>)),
                OneLineDoc("WARNING", JLine(<<"m">>, <<>>))}

\* request construction
InitRequests ==
    /\ flagErr = FALSE
    /\ seen = BothFlags
    /\ flagURL \in {"https://h:8443", "https://h:8443/api"}
    /\ args \in ArgLists
    /\ reqErr = FALSE
    /\ doErr = FALSE
    /\ bodyEnd = "eof"
    /\ doc = OneLineDoc("OK", JLine(<<"m">>, <<>>))

\* responses
InitResponses ==
    /\ flagErr = FALSE
    /\ seen = BothFlags
    /\ flagURL = "https://h:8443"
    /\ reqErr = FALSE
    /\ doErr = FALSE
    /\ \/ /\ args \in {<<>>, <<CheckName>>}
          /\ bodyEnd \in BodyEnds
          /\ doc \in ShapeDocs
       \/ /\ args = <<CheckName>>
          /\ bodyEnd = "eof"
          /\ doc \in MetricDocs \cup MessageDocs \cup LinesDocs

Init ==
    /\ flagVerbose \in BOOLEAN
    /\ prev = <<>>
    /\ RunInit
    /\ InitFailures \/ InitRequests \/ InitResponses

\* os.Exit(code): the process ends at once, deferred calls are not run
Exit(code) ==
    /\ pc' = "exited"
    /\ exitCode' = code
    /\ UNCHANGED deferred

\* a mutant of FailExit: the failure leaves with the CRITICAL code
FailExitCritical(reason) ==
    /\ stdout' = Append(stdout, UnknownLine(reason))
    /\ Exit(2)

\* fmt.Println("UNKNOWN: " + err.Error()); os.Exit(3)
FailExit(reason) ==
    /\ stdout' = Append(stdout, UnknownLine(reason))
    /\ Exit(3)

MissingReason(req) ==
    IF req = "u" THEN "Missing required -u argument"
    ELSE "Missing required -p argument"

\* flag.Parse (ExitOnError): an undefined flag or a bad value prints the
\* error and the usage and leaves with os.Exit(2)
FlagParseFail ==
    /\ pc = "start"
    /\ flagErr
    /\ stderr' = <<<<"flag error">>, <<"Usage of nscrestc:">>, <<"flag defaults">>>>
    /\ Exit(2)
    /\ UNCHANGED <<inputVars, flagVerbose, urlStruct, netBody, resBody,
                   queryResult, decodeErr, result, nagiosMessage,
                   nagiosPerfdata, li, pj, stdout, prev>>

MissingRequired ==
    /\ pc = "start"
    /\ ~flagErr
    /\ \E req \in BothFlags :
          /\ req \notin seen
          /\ req = "p" => "u" \in seen
          /\ stderr' = <<UnknownLine(MissingReason(req)), <<"Usage of nscrestc:">>,
                         <<"flag defaults">>>>
    /\ Exit(3)
    /\ UNCHANGED <<inputVars, flagVerbose, urlStruct, netBody, resBody,
                   queryResult, decodeErr, result, nagiosMessage,
                   nagiosPerfdata, li, pj, stdout, prev>>

RequiredPresent ==
    /\ pc = "start"
    /\ ~flagErr
    /\ BothFlags \subseteq seen
    /\ pc' = "parse"
    /\ UNCHANGED <<inputVars, flagVerbose, urlStruct, netBody, resBody, deferred,
                   queryResult, decodeErr, result, nagiosMessage,
                   nagiosPerfdata, li, pj, stdout, stderr, exitCode, prev>>

ParseURLFail ==
    /\ pc = "parse"
    /\ UrlParse(flagURL).err
    /\ FailExit("parse error")
    /\ UNCHANGED <<inputVars, flagVerbose, urlStruct, netBody, resBody,
                   queryResult, decodeErr, result, nagiosMessage,
                   nagiosPerfdata, li, pj, stderr, prev>>

\* url.Parse succeeded; lines 107-131 extend the path and set the query
BuildRequestURL ==
    /\ pc = "parse"
    /\ ~UrlParse(flagURL).err
    /\ urlStruct' = BuildURL([Path |-> UrlParse(flagURL).Path,
                              RawQuery |-> UrlParse(flagURL).RawQuery], args)
    /\ pc' = "newreq"
    /\ UNCHANGED <<inputVars, flagVerbose, netBody, resBody, deferred,
                   queryResult, decodeErr, result, nagiosMessage,
                   nagiosPerfdata, li, pj, stdout, stderr, exitCode, prev>>

NewRequestFail ==
    /\ pc = "newreq"
    /\ reqErr
    /\ FailExit("request error")
    /\ UNCHANGED <<inputVars, flagVerbose, urlStruct, netBody, resBody,
                   queryResult, decodeErr, result, nagiosMessage,
                   nagiosPerfdata, li, pj, stderr, prev>>

NewRequestOk ==
    /\ pc = "newreq"
    /\ ~reqErr
    /\ pc' = IF flagVerbose THEN "dumpreq" ELSE "do"
    /\ UNCHANGED <<inputVars, flagVerbose, urlStruct, netBody, resBody, deferred,
                   queryResult, decodeErr, result, nagiosMessage,
                   nagiosPerfdata, li, pj, stdout, stderr, exitCode, prev>>

\* httputil.DumpRequestOut, failing or not, only prints
DumpRequestOut ==
    /\ pc = "dumpreq"
    /\ \E failed \in BOOLEAN :
          stdout' = stdout
                    \o (IF failed THEN <<<<"REQUEST-ERROR:">>>> ELSE <<>>)
                    \o <<<<"REQUEST:">>>>
    /\ pc' = "do"
    /\ UNCHANGED <<inputVars, flagVerbose, urlStruct, netBody, resBody, deferred,
                   queryResult, decodeErr, result, nagiosMessage,
                   nagiosPerfdata, li, pj, stderr, exitCode, prev>>

DoFail ==
    /\ pc = "do"
    /\ doErr
    /\ FailExit("transport error")
    /\ UNCHANGED <<inputVars, flagVerbose, urlStruct, netBody, resBody,
                   queryResult, decodeErr, result, nagiosMessage,
                   nagiosPerfdata, li, pj, stderr, prev>>

\* hClient.Do returned a response; defer res.Body.Close()
DoOk ==
    /\ pc = "do"
    /\ ~doErr
    /\ resBody' = "net"
    /\ deferred' = Append(deferred, "res.Body.Close")
    /\ pc' = IF flagVerbose THEN "dumpres" ELSE "branch"
    /\ UNCHANGED <<inputVars, flagVerbose, urlStruct, netBody,
                   queryResult, decodeErr, result, nagiosMessage,
                   nagiosPerfdata, li, pj, stdout, stderr, exitCode, prev>>

\* httputil.DumpResponse(res, true): the body is read to its end, closed and
\* replaced by an in-memory copy
DumpResponseOk ==
    /\ pc = "dumpres"
    /\ bodyEnd = "eof"
    /\ netBody' = [pos |-> "end", closed |-> TRUE]
    /\ resBody' = "copy"
    /\ stdout' = Append(stdout, <<"RESPONSE:">>)
    /\ pc' = "branch"
    /\ UNCHANGED <<inputVars, flagVerbose, urlStruct, deferred,
                   queryResult, decodeErr, result, nagiosMessage,
                   nagiosPerfdata, li, pj, stderr, exitCode, prev>>

\* the read of the body fails: DumpResponse returns the error and leaves
\* res.Body the drained network stream
DumpResponseFail ==
    /\ pc = "dumpres"
    /\ bodyEnd # "eof"
    /\ netBody' = [netBody EXCEPT !.pos = "end"]
    /\ stdout' = stdout \o <<<<"RESPONSE-ERROR:">>, <<"RESPONSE:">>>>
    /\ pc' = "branch"
    /\ UNCHANGED <<inputVars, flagVerbose, urlStruct, resBody, deferred,
                   queryResult, decodeErr, result, nagiosMessage,
                   nagiosPerfdata, li, pj, stderr, exitCode, prev>>

ProbeExit ==
    /\ pc = "branch"
    /\ Len(args) = 0
    /\ stdout' = Append(stdout, ProbeLine(flagURL))
    /\ Exit(0)
    /\ UNCHANGED <<inputVars, flagVerbose, urlStruct, netBody, resBody,
                   queryResult, decodeErr, result, nagiosMessage,
                   nagiosPerfdata, li, pj, stderr, prev>>

\* what the decoder gets out of res.Body
ReadAndDecode(body, net, ending, d) ==
    IF body = "copy" THEN Decode(d)
    ELSE IF net.pos = "start" /\ ending # "errBeforeValue" THEN Decode(d)
    ELSE DecodeNothing

DecodeBody ==
    /\ pc = "branch"
    /\ Len(args) # 0
    /\ LET r == ReadAndDecode(resBody, netBody, bodyEnd, doc)
       IN /\ queryResult' = r.q
          /\ decodeErr' = r.err
    /\ netBody' = IF resBody = "copy" THEN netBody
                  ELSE IF netBody.pos = "start" /\ bodyEnd # "errBeforeValue"
                  THEN [netBody EXCEPT !.pos = "value"]
                  ELSE [netBody EXCEPT !.pos = "end"]
    /\ pc' = "payload"
    /\ UNCHANGED <<inputVars, flagVerbose, urlStruct, resBody, deferred,
                   result, nagiosMessage, nagiosPerfdata, li, pj, stdout,
                   stderr, exitCode, prev>>

EmptyPayloadExit ==
    /\ pc = "payload"
    /\ Len(queryResult.Payload) = 0
    /\ stdout' = stdout
                 \o (IF flagVerbose THEN <<<<"QUERY RESULT:">>>> ELSE <<>>)
                 \o <<UnknownLine("The resultpayload size is 0")>>
    /\ Exit(3)
    /\ UNCHANGED <<inputVars, flagVerbose, urlStruct, netBody, resBody,
                   queryResult, decodeErr, result, nagiosMessage,
                   nagiosPerfdata, li, pj, stderr, prev>>

TakeResult ==
    /\ pc = "payload"
    /\ Len(queryResult.Payload) # 0
    /\ result' = queryResult.Payload[1].Result
    /\ nagiosMessage' = <<>>
    /\ nagiosPerfdata' = <<>>
    /\ li' = 1
    /\ pc' = "lines"
    /\ UNCHANGED <<inputVars, flagVerbose, urlStruct, netBody, resBody, deferred,
                   queryResult, decodeErr, pj, stdout, stderr, exitCode, prev>>

Lines == queryResult.Payload[1].Lines

NextLine ==
    /\ pc = "lines"
    /\ li <= Len(Lines)
    /\ nagiosMessage' = LineMessage(nagiosMessage, Lines[li])
    /\ pj' = 1
    /\ pc' = "perf"
    /\ UNCHANGED <<inputVars, flagVerbose, urlStruct, netBody, resBody, deferred,
                   queryResult, decodeErr, result, nagiosPerfdata, li, stdout,
                   stderr, exitCode, prev>>

PerfEntry ==
    /\ pc = "perf"
    /\ pj <= Len(Lines[li].Perf)
    /\ nagiosPerfdata' = nagiosPerfdata \o PerfTag(Lines[li].Perf[pj])
    /\ pj' = pj + 1
    /\ UNCHANGED <<inputVars, flagVerbose, urlStruct, netBody, resBody, deferred,
                   queryResult, decodeErr, result, nagiosMessage, li, pc, stdout,
                   stderr, exitCode, prev>>

PerfDone ==
    /\ pc = "perf"
    /\ pj > Len(Lines[li].Perf)
    /\ li' = li + 1
    /\ pc' = "lines"
    /\ UNCHANGED <<inputVars, flagVerbose, urlStruct, netBody, resBody, deferred,
                   queryResult, decodeErr, result, nagiosMessage, nagiosPerfdata,
                   pj, stdout, stderr, exitCode, prev>>

PrintResult ==
    /\ pc = "lines"
    /\ li > Len(Lines)
    /\ stdout' = Append(stdout, ResultLine(nagiosMessage, nagiosPerfdata))
    /\ Exit(ReturncodeMap(result))
    /\ UNCHANGED <<inputVars, flagVerbose, urlStruct, netBody, resBody,
                   queryResult, decodeErr, result, nagiosMessage,
                   nagiosPerfdata, li, pj, stderr, prev>>

\* the line that carries the outcome of a finished run
FinalLine == IF stderr # <<>> THEN stderr[1] ELSE Last(stdout)

\* the same command line with -v toggled, against the same agent behaviour
Rerun ==
    /\ pc = "exited"
    /\ prev = <<>>
    /\ prev' = <<[verbose |-> flagVerbose, exit |-> exitCode, line |-> FinalLine]>>
    /\ flagVerbose' = ~flagVerbose
    /\ pc' = "start"
    /\ urlStruct' = [Path |-> <<>>, RawQuery |-> <<>>]
    /\ netBody' = FreshBody
    /\ resBody' = "none"
    /\ deferred' = <<>>
    /\ queryResult' = ZeroQuery
    /\ decodeErr' = FALSE
    /\ result' = ""
    /\ nagiosMessage' = <<>>
    /\ nagiosPerfdata' = <<>>
    /\ li' = 0
    /\ pj' = 0
    /\ stdout' = <<>>
    /\ stderr' = <<>>
    /\ exitCode' = -1
    /\ UNCHANGED inputVars

Next ==
    \/ FlagParseFail
    \/ MissingRequired
    \/ RequiredPresent
    \/ ParseURLFail
    \/ BuildRequestURL
    \/ NewRequestFail
    \/ NewRequestOk
    \/ DumpRequestOut
    \/ DoFail
    \/ DoOk
    \/ DumpResponseOk
    \/ DumpResponseFail
    \/ ProbeExit
    \/ DecodeBody
    \/ EmptyPayloadExit
    \/ TakeResult
    \/ NextLine
    \/ PerfEntry
    \/ PerfDone
    \/ PrintResult
    \/ Rerun

Spec == Init /\ [][Next]_vars

----------------------------------------------------------------------------
(* Properties *)

Exited == pc = "exited"

\* hClient.Do has returned a response in this run
GotResponse == resBody # "none"

RECURSIVE Count(_, _)
Count(c, s) == IF s = <<>> THEN 0
               ELSE (IF Head(s) = c THEN 1 ELSE 0) + Count(c, Tail(s))

PayloadSizeLine == <<"UNKNOWN: ", "The resultpayload size is 0">>

\* C1: a query run whose call succeeded and whose decoded payload is not
\* empty exits with the code of the first entry's result string: OK 0,
\* WARNING 1, CRITICAL 2, UNKNOWN 3, anything else 0
C1_ExitCodeFromFirstResult ==
    (Exited /\ Len(args) >= 1 /\ GotResponse /\ Len(queryResult.Payload) > 0)
    => LET r == queryResult.Payload[1].Result
       IN /\ r = "OK" => exitCode = 0
          /\ r = "WARNING" => exitCode = 1
          /\ r = "CRITICAL" => exitCode = 2
          /\ r = "UNKNOWN" => exitCode = 3
          /\ r \notin {"OK", "WARNING", "CRITICAL", "UNKNOWN"} => exitCode = 0

C1_Witness ==
    /\ Exited
    /\ Len(queryResult.Payload) = 2
    /\ queryResult.Payload[1].Result = "ok"
    /\ queryResult.Payload[2].Result = "CRITICAL"
    /\ exitCode = 0

\* the failure categories of a run
MissingArgument == ~(BothFlags \subseteq seen)
MalformedURL == UrlParse(flagURL).err
EmptyPayload == Len(args) >= 1 /\ GotResponse /\ Len(queryResult.Payload) = 0
Failed == MissingArgument \/ MalformedURL \/ reqErr \/ doErr \/ EmptyPayload

\* C2: every run that fails in one of these categories (the command line
\* itself being accepted by the flag parser) reports a line
\* "UNKNOWN: <reason>" and exits with 3, never with 0, 1 or 2
C2_FailuresExitUnknown ==
    (Exited /\ ~flagErr /\ Failed)
    => /\ exitCode = 3
       /\ Len(FinalLine) = 2
       /\ FinalLine[1] = "UNKNOWN: "

C2_Witness ==
    /\ Exited
    /\ ~flagErr
    /\ ~MissingArgument /\ ~MalformedURL /\ ~reqErr
    /\ doErr
    /\ exitCode = 3
    /\ FinalLine = <<"UNKNOWN: ", "transport error">>

\* C3: a probe run (no positional argument) whose call returned a response
\* ends with "OK: NSClient API reachable on <url>" and code 0 whatever the
\* body is, and never reaches the decoding of the body
C3_ProbeReachable ==
    /\ Len(args) = 0 => (pc \notin {"payload", "lines", "perf"}
                         /\ queryResult = ZeroQuery /\ ~decodeErr)
    /\ (Exited /\ Len(args) = 0 /\ BothFlags \subseteq seen /\ GotResponse)
       => /\ FinalLine = <<"OK: NSClient API reachable on ", flagURL>>
          /\ Last(stdout) = FinalLine
          /\ exitCode = 0

C3_Witness ==
    /\ Exited
    /\ Len(args) = 0
    /\ flagVerbose
    /\ doc = BadSyntaxDoc
    /\ bodyEnd = "errBeforeValue"
    /\ GotResponse
    /\ exitCode = 0

\* the body is not JSON, is no object, or its payload is missing, no array
\* or an empty array
NoPayloadElement(d) ==
    \/ d.syntax # "valid"
    \/ d.top # "object"
    \/ d.payload.type # "array"
    \/ Len(d.payload.val) = 0

\* the body makes the decoder report an error of any kind
Unexpected(d) ==
    \/ NoPayloadElement(d)
    \/ \E k \in 1..Len(d.payload.val) :
          \/ d.payload.val[k].type # "object"
          \/ d.payload.val[k].result.type = "number"
          \/ d.payload.val[k].lines.type = "number"

NoResultOutput ==
    /\ FinalLine = PayloadSizeLine
    /\ Last(stdout) = PayloadSizeLine
    /\ exitCode = 3
    /\ li = 0
    /\ nagiosMessage = <<>>
    /\ nagiosPerfdata = <<>>

PresentFields(iv) ==
    SelectSeq(<<iv.Warning, iv.Critical, iv.Minimum, iv.Maximum>>,
              LAMBDA f : f # <<>>)

ExpectedTag(p) ==
    <<"'">> \o p.Alias \o <<"'", "=">> \o FormatFloat(p.IntValue.Value[1])
    \o (IF p.IntValue.Unit = <<>> THEN <<>> ELSE p.IntValue.Unit[1])
    \o Concat([k \in 1..Len(PresentFields(p.IntValue)) |->
                  <<";">> \o FormatFloat(PresentFields(p.IntValue)[k][1])])

LineTags(l) ==
    LET valued == SelectSeq(l.Perf, LAMBDA p : p.IntValue.Value # <<>>)
    IN [k \in 1..Len(valued) |-> ExpectedTag(valued[k])]

AllTags(ls) == Concat([k \in 1..Len(ls) |-> LineTags(ls[k])])

RECURSIVE JoinSpace(_)
JoinSpace(parts) ==
    IF parts = <<>> THEN <<>>
    ELSE IF Len(parts) = 1 THEN Head(parts)
    ELSE Head(parts) \o <<" ">> \o JoinSpace(Tail(parts))

Formatted == Exited /\ Len(queryResult.Payload) > 0

\* C5: when the first payload entry has lines, the printed message is the
\* trimmed message of its last line; the tags of the valued metrics of
\* all lines follow a "|" in line order and metric order; the "|" is
\* there exactly when some metric of some line has a value
C5_LastMessageAllTags ==
    (Formatted /\ Len(queryResult.Payload[1].Lines) >= 1)
    => LET ls == queryResult.Payload[1].Lines
           msg == TrimSpace(ls[Len(ls)].Message)
           valued == \E k \in 1..Len(ls) : \E j \in 1..Len(ls[k].Perf) :
                         ls[k].Perf[j].IntValue.Value # <<>>
       IN /\ FinalLine = IF valued THEN msg \o <<"|">> \o JoinSpace(AllTags(ls))
                         ELSE msg
          /\ (Count("|", FinalLine) = 1) <=> valued
          /\ (Count("|", FinalLine) = 0) <=> ~valued

\* " m2|'a1'=1.1 'a1'=2.1 'a2'=2.2" from two lines
C5_Witness ==
    /\ Formatted
    /\ Len(queryResult.Payload[1].Lines) = 2
    /\ queryResult.Payload[1].Lines[1].Message = <<" ", "m", "1">>
    /\ FinalLine = <<"m", "2", "|",
                     "'", "a", "1", "'", "=", "1", ".", "1", " ",
                     "'", "a", "1", "'", "=", "2", ".", "1", " ",
                     "'", "a", "2", "'", "=", "2", ".", "2">>

\* one pass of the body of the perf loop
PerfStep == pc = "perf" /\ pc' = "perf" /\ pj' = pj + 1

Written == SubSeq(nagiosPerfdata', Len(nagiosPerfdata) + 1, Len(nagiosPerfdata'))

RECURSIVE SplitOn(_, _)
SplitOn(c, s) ==
    IF \E k \in 1..Len(s) : s[k] = c
    THEN LET k == CHOOSE x \in 1..Len(s) :
                     s[x] = c /\ \A y \in 1..(x - 1) : s[y] # c
         IN <<SubSeq(s, 1, k - 1)>> \o SplitOn(c, SubSeq(s, k + 1, Len(s)))
    ELSE <<s>>

\* C7: the ";"-fields of a tag are, by position, the warning, the critical,
\* the minimum and the maximum of its metric: the first field is the
\* warning, the second the critical, the third the minimum, the fourth
\* the maximum
C7_TagFieldsByPosition ==
    [][(PerfStep /\ queryResult.Payload[1].Lines[li].Perf[pj].IntValue.Value # <<>>) =>
         LET iv == queryResult.Payload[1].Lines[li].Perf[pj].IntValue
             byPos == <<iv.Warning, iv.Critical, iv.Minimum, iv.Maximum>>
             fields == Tail(SplitOn(";", Written))
         IN /\ Len(fields) <= 4
            /\ \A k \in 1..Len(fields) :
                  /\ byPos[k] # <<>>
                  /\ fields[k] = FormatFloat(byPos[k][1])
    ]_vars

\* the part of a token before its first "=" and the part after it
RECURSIVE UpToEq(_)
UpToEq(a) == IF a = <<>> \/ Head(a) = "=" THEN <<>>
             ELSE <<Head(a)>> \o UpToEq(Tail(a))

AfterEq(a) == SubSeq(a, Len(UpToEq(a)) + 2, Len(a))

RECURSIVE Unescape(_)
Unescape(s) ==
    IF s = <<>> THEN <<>>
    ELSE IF Head(s) = "%" /\ Len(s) >= 3
    THEN (CASE SubSeq(s, 2, 3) = <<"3", "D">> -> <<"=">>
            [] SubSeq(s, 2, 3) = <<"2", "6">> -> <<"&">>
            [] SubSeq(s, 2, 3) = <<"2", "B">> -> <<"+">>
            [] OTHER -> <<"?">>)
         \o Unescape(SubSeq(s, 4, Len(s)))
    ELSE <<IF Head(s) = "+" THEN " " ELSE Head(s)>> \o Unescape(Tail(s))

\* the (key, value) pairs a query string carries, in its order
QueryPairs(q) ==
    LET parts == SplitOn("&", q)
    IN [k \in 1..Len(parts) |->
           <<Unescape(UpToEq(parts[k])), Unescape(AfterEq(parts[k]))>>]

Occurrences(x, seq) == Cardinality({k \in 1..Len(seq) : seq[k] = x})

URLBuilt == pc \notin {"start", "parse", "exited"}

C9_VerboseChangesNothing ==
    (Exited /\ prev # <<>>)
    => /\ prev[1].verbose # flagVerbose
       /\ exitCode = prev[1].exit
       /\ FinalLine = prev[1].line

\* C10: when a run that got a response exits, the network body stream has
\* been read to its end and closed
C10_BodyClosedAtExit ==
    (Exited /\ GotResponse) => (netBody.pos = "end" /\ netBody.closed)

====
